---- MODULE Spec2Model ----
(***************************************************************************)
(* django_bouncy/utils.py: verification of Amazon SNS callbacks.           *)
(*                                                                         *)
(* grab_keyfile (certificate cache + fetch), verify_notification           *)
(* (canonical string, base64 signature, signature check) and               *)
(* approve_subscription (domain allow-list, confirmation GET, signal).     *)
(*                                                                         *)
(* Representation.  A text value is an atom (a TLA+ string); Lines(v)      *)
(* gives the lines it splits into at "\n" and Chars(v) the characters of   *)
(* the values that are parsed character by character (URLs).  A text that  *)
(* is built by the program (the canonical string) is the sequence of its   *)
(* lines.  A base64 text is a sequence of symbols: 0..63 a digit of the    *)
(* alphabet, 64 the pad "=", 65 a character outside the alphabet.  Bytes   *)
(* are numbers 0..255.  A downloaded file is a sequence of chunks, each a  *)
(* PEM block or plain text.                                                *)
(***************************************************************************)
EXTENDS Integers, Sequences, FiniteSets, TLC

\* Number of request-handling threads of the concurrent specification.
NumProcs == 2

Procs == 1..NumProcs

-----------------------------------------------------------------------------
(* Text values *)

\* The lines of a text value: the value split at its newlines.
Lines(v) ==
    CASE v = "m1\nMessageId\nid0" -> <<"m1", "MessageId", "id0">>
      [] v = "id0\nMessageId\nid1" -> <<"id0", "MessageId", "id1">>
      [] v = "line1\nline2" -> <<"line1", "line2">>
      [] OTHER -> <<v>>

\* A template line: literal text, or a replacement field {name}.
Lit(s) == [lit |-> TRUE, text |-> s]

Fld(f) == [lit |-> FALSE, text |-> f]

\* The templates, line by line; the last line is the empty text after the
\* final newline.
NOTIFICATION_HASH_FORMAT ==
    << Lit("Message"), Fld("Message"),
       Lit("MessageId"), Fld("MessageId"),
       Lit("Timestamp"), Fld("Timestamp"),
       Lit("TopicArn"), Fld("TopicArn"),
       Lit("Type"), Fld("Type"),
       Lit("") >>

SUBSCRIPTION_HASH_FORMAT ==
    << Lit("Message"), Fld("Message"),
       Lit("MessageId"), Fld("MessageId"),
       Lit("SubscribeURL"), Fld("SubscribeURL"),
       Lit("Timestamp"), Fld("Timestamp"),
       Lit("Token"), Fld("Token"),
       Lit("TopicArn"), Fld("TopicArn"),
       Lit("Type"), Fld("Type"),
       Lit("") >>

\* The choice of the hash format with the SubscribeURL and Token lines of the
\* subscription format in each other's place.
HashFormatSwapped(data) ==
    IF data["Type"] = "Notification"
        THEN NOTIFICATION_HASH_FORMAT
        ELSE [i \in 1..Len(SUBSCRIPTION_HASH_FORMAT) |->
                 IF i \in {5, 6} THEN SUBSCRIPTION_HASH_FORMAT[i + 4]
                 ELSE IF i \in {9, 10} THEN SUBSCRIPTION_HASH_FORMAT[i - 4]
                 ELSE SUBSCRIPTION_HASH_FORMAT[i]]

\* if data['Type'] == "Notification": ... else: ...
HashFormat(data) ==
    IF data["Type"] = "Notification"
        THEN NOTIFICATION_HASH_FORMAT
        ELSE SUBSCRIPTION_HASH_FORMAT

RECURSIVE Substitute(_, _)
Substitute(fmt, data) ==
    IF fmt = <<>> THEN <<>>
    ELSE LET h == Head(fmt)
         IN  (IF h.lit THEN <<h.text>> ELSE Lines(data[h.text]))
                 \o Substitute(Tail(fmt), data)

\* str.format(**data): KeyError when a replacement field is no key of data.
Format(fmt, data) ==
    IF \E i \in DOMAIN fmt : ~fmt[i].lit /\ fmt[i].text \notin DOMAIN data
        THEN [ok |-> FALSE, exc |-> "KeyError", lines |-> <<>>]
        ELSE [ok |-> TRUE, exc |-> "", lines |-> Substitute(fmt, data)]

-----------------------------------------------------------------------------
(* base64 *)

NoBytes == <<>>

B64Error == [ok |-> FALSE, exc |-> "binascii.Error", bytes |-> NoBytes]

\* binascii.a2b_base64 as base64.decodebytes calls it (not strict): characters
\* outside the alphabet are skipped, a complete pad sequence ends the input,
\* and leftover digits are an error.
RECURSIVE A2B(_, _, _, _, _, _)
A2B(s, i, quad, left, pads, out) ==
    IF i > Len(s)
        THEN IF quad # 0 THEN B64Error
             ELSE [ok |-> TRUE, exc |-> "", bytes |-> out]
    ELSE LET c == s[i]
         IN  IF c = 64
                 THEN IF quad >= 2 /\ quad + pads + 1 >= 4
                          THEN [ok |-> TRUE, exc |-> "", bytes |-> out]
                          ELSE A2B(s, i + 1, quad, left,
                                   IF quad >= 2 THEN pads + 1 ELSE pads, out)
             ELSE IF c > 64
                 THEN A2B(s, i + 1, quad, left, pads, out)
             ELSE CASE quad = 0 -> A2B(s, i + 1, 1, c, 0, out)
                    [] quad = 1 -> A2B(s, i + 1, 2, c % 16, 0,
                                       Append(out, left * 4 + c \div 16))
                    [] quad = 2 -> A2B(s, i + 1, 3, c % 4, 0,
                                       Append(out, left * 16 + c \div 4))
                    [] quad = 3 -> A2B(s, i + 1, 0, 0, 0,
                                       Append(out, left * 64 + c))

decodebytes(s) == A2B(s, 1, 0, 0, 0, NoBytes)

\* The sender's side: standard base64 of a byte string.
RECURSIVE b64encode(_)
b64encode(b) ==
    CASE Len(b) = 0 -> <<>>
      [] Len(b) = 1 -> << b[1] \div 4, (b[1] % 4) * 16, 64, 64 >>
      [] Len(b) = 2 -> << b[1] \div 4, (b[1] % 4) * 16 + b[2] \div 16,
                          (b[2] % 16) * 4, 64 >>
      [] OTHER -> << b[1] \div 4, (b[1] % 4) * 16 + b[2] \div 16,
                     (b[2] % 16) * 4 + b[3] \div 64, b[3] % 64 >>
                      \o b64encode(SubSeq(b, 4, Len(b)))

-----------------------------------------------------------------------------
(* Certificates, keys and the signature check *)

\* A chunk of a downloaded file: a PEM block (holding a public key, loadable
\* or not) or text that is no PEM block.
Cert(k) == [kind |-> "pem", loadable |-> TRUE, n |-> k.n, e |-> k.e]

BadCert == [kind |-> "pem", loadable |-> FALSE, n |-> 0, e |-> 0]

Text == [kind |-> "text", loadable |-> FALSE, n |-> 0, e |-> 0]

\* Two key pairs: the service's and another party's.
AwsKey == [n |-> 3233, e |-> 17, d |-> 2753]

OtherKey == [n |-> 2773, e |-> 17, d |-> 157]

\* pem.parse: the PEM blocks of the file, in order.
pem_parse(bytes) == SelectSeq(bytes, LAMBDA c : c.kind = "pem")

\* load_pem_public_key: ValueError unless the bytes hold a loadable key.
load_pem_public_key(bytes) ==
    LET blocks == pem_parse(bytes)
    IN  IF blocks # <<>> /\ blocks[1].loadable
            THEN [ok |-> TRUE, exc |-> "", n |-> blocks[1].n, e |-> blocks[1].e]
            ELSE [ok |-> FALSE, exc |-> "ValueError", n |-> 0, e |-> 0]

\* Every text that can be a line of a canonical string; a line's code is its
\* place in this list.
LineAtoms ==
    << "", "Message", "MessageId", "SubscribeURL", "Timestamp", "Token",
       "TopicArn", "Type", "Notification", "SubscriptionConfirmation",
       "UnsubscribeConfirmation", "m1", "m2", "id0", "id1", "ts1", "arn1",
       "tok1", "line1", "line2",
       "https://sns.eu-1.amazonaws.com/c", "https://evil.example.com/x",
       "https://snsxaxamazonaws.com/c", "https://sns.eu-1.amazonaws.com.evil.net/c",
       "https://evil.net/sns.eu-1.amazonaws.com", "https://evil-sns.eu-1.amazonaws.com/c",
       "sns.eu-1.amazonaws.com/c", "https://sns.EU.amazonaws.com/c",
       "https://example.com/c" >>

LineCode(s) == CHOOSE i \in DOMAIN LineAtoms : LineAtoms[i] = s

\* The message digest (hashes.SHA256()), as a polynomial hash of the lines.
RECURSIVE Digest(_, _)
Digest(lines, h) ==
    IF lines = <<>> THEN h
    ELSE Digest(Tail(lines), (h * 31 + LineCode(Head(lines))) % 65521)

RECURSIVE ModExp(_, _, _)
ModExp(b, x, n) ==
    IF x = 0 THEN 1 % n
    ELSE LET half == ModExp(b, x \div 2, n)
             sq == (half * half) % n
         IN  IF x % 2 = 1 THEN (sq * b) % n ELSE sq

RECURSIVE BytesToInt(_, _)
BytesToInt(bytes, acc) ==
    IF bytes = <<>> THEN acc
    ELSE BytesToInt(Tail(bytes), (acc * 256 + Head(bytes)) % 1000000)

\* The sender's side: the signature of the text `lines` under a private key,
\* two bytes, most significant first.
Sign(key, lines) ==
    LET s == ModExp(Digest(lines, 0) % key.n, key.d, key.n)
    IN  << s \div 256, s % 256 >>

\* cert.verify(signature=..., data=..., algorithm=...): passes when the
\* signature is the one the key's owner makes for exactly this data, and
\* raises otherwise.
cert_verify(cert, signature, lines) ==
    /\ Len(signature) = 2
    /\ BytesToInt(signature, 0) < cert.n
    /\ ModExp(BytesToInt(signature, 0), cert.e, cert.n) = Digest(lines, 0) % cert.n

-----------------------------------------------------------------------------
(* URLs and the domain pattern *)

\* The characters of the URL values.
Chars(v) ==
    CASE v = "https://sns.eu-1.amazonaws.com/c" ->
           << "h", "t", "t", "p", "s", ":", "/", "/", "s", "n", "s", ".", "e",
           "u", "-", "1", ".", "a", "m", "a", "z", "o", "n", "a", "w", "s", ".",
           "c", "o", "m", "/", "c" >>
      [] v = "https://evil.example.com/x" ->
           << "h", "t", "t", "p", "s", ":", "/", "/", "e", "v", "i", "l", ".",
           "e", "x", "a", "m", "p", "l", "e", ".", "c", "o", "m", "/", "x" >>
      [] v = "https://snsxaxamazonaws.com/c" ->
           << "h", "t", "t", "p", "s", ":", "/", "/", "s", "n", "s", "x", "a",
           "x", "a", "m", "a", "z", "o", "n", "a", "w", "s", ".", "c", "o", "m",
           "/", "c" >>
      [] v = "https://sns.eu-1.amazonaws.com.evil.net/c" ->
           << "h", "t", "t", "p", "s", ":", "/", "/", "s", "n", "s", ".", "e",
           "u", "-", "1", ".", "a", "m", "a", "z", "o", "n", "a", "w", "s", ".",
           "c", "o", "m", ".", "e", "v", "i", "l", ".", "n", "e", "t", "/",
           "c" >>
      [] v = "https://evil.net/sns.eu-1.amazonaws.com" ->
           << "h", "t", "t", "p", "s", ":", "/", "/", "e", "v", "i", "l", ".",
           "n", "e", "t", "/", "s", "n", "s", ".", "e", "u", "-", "1", ".", "a",
           "m", "a", "z", "o", "n", "a", "w", "s", ".", "c", "o", "m" >>
      [] v = "https://evil-sns.eu-1.amazonaws.com/c" ->
           << "h", "t", "t", "p", "s", ":", "/", "/", "e", "v", "i", "l", "-",
           "s", "n", "s", ".", "e", "u", "-", "1", ".", "a", "m", "a", "z", "o",
           "n", "a", "w", "s", ".", "c", "o", "m", "/", "c" >>
      [] v = "sns.eu-1.amazonaws.com/c" ->
           << "s", "n", "s", ".", "e", "u", "-", "1", ".", "a", "m", "a", "z",
           "o", "n", "a", "w", "s", ".", "c", "o", "m", "/", "c" >>
      [] v = "https://sns.EU.amazonaws.com/c" ->
           << "h", "t", "t", "p", "s", ":", "/", "/", "s", "n", "s", ".", "E",
           "U", ".", "a", "m", "a", "z", "o", "n", "a", "w", "s", ".", "c", "o",
           "m", "/", "c" >>
      [] v = "https://example.com/c" ->
           << "h", "t", "t", "p", "s", ":", "/", "/", "e", "x", "a", "m", "p",
           "l", "e", ".", "c", "o", "m", "/", "c" >>

Lower ==
    { "a", "b", "c", "d", "e", "f", "g", "h", "i", "j", "k", "l", "m",
      "n", "o", "p", "q", "r", "s", "t", "u", "v", "w", "x", "y", "z" }

\* The upper-case letters that occur in the URLs here.
Upper == { "E", "U" }

Digits == { "0", "1", "2", "3", "4", "5", "6", "7", "8", "9" }

SchemeChars == Lower \cup Upper \cup Digits \cup { "+", "-", "." }

\* The least index >= i of s holding a character of set, or Len(s) + 1.
RECURSIVE Find(_, _, _)
Find(s, i, set) ==
    IF i > Len(s) \/ s[i] \in set THEN i ELSE Find(s, i + 1, set)

\* urlparse(url).netloc: after an optional scheme ("letters:"), the text
\* between a leading "//" and the next "/", "?" or "#"; empty without "//".
netloc(url) ==
    LET s == Chars(url)
        colon == Find(s, 1, { ":" })
        hasScheme == /\ colon <= Len(s)
                     /\ colon > 1
                     /\ s[1] \in Lower \cup Upper
                     /\ \A k \in 1..(colon - 1) : s[k] \in SchemeChars
        rest == IF hasScheme THEN SubSeq(s, colon + 1, Len(s)) ELSE s
    IN  IF Len(rest) >= 2 /\ rest[1] = "/" /\ rest[2] = "/"
            THEN SubSeq(rest, 3, Find(rest, 3, { "/", "?", "#" }) - 1)
            ELSE <<>>

\* A pattern is a sequence of tokens: one literal character, "." (any
\* character but a newline), the class [a-z0-9\-] repeated once or more,
\* or "$".
RLit(c) == [tok |-> "lit", ch |-> c]

RAny == [tok |-> "any", ch |-> ""]

RClassPlus == [tok |-> "class+", ch |-> ""]

REnd == [tok |-> "end", ch |-> ""]

\* r"sns.[a-z0-9\-]+.amazonaws.com$"
DefaultDomainRegex ==
    << RLit("s"), RLit("n"), RLit("s"), RAny, RClassPlus, RAny,
       RLit("a"), RLit("m"), RLit("a"), RLit("z"), RLit("o"), RLit("n"), RLit("a"), RLit("w"), RLit("s"),
       RAny, RLit("c"), RLit("o"), RLit("m"), REnd >>

\* A pattern a deployment may set: r"example\.com$"
CustomDomainRegex ==
    << RLit("e"), RLit("x"), RLit("a"), RLit("m"), RLit("p"), RLit("l"), RLit("e"),
       RLit("."), RLit("c"), RLit("o"), RLit("m"), REnd >>

RECURSIVE MatchHere(_, _, _, _)
MatchHere(pat, k, s, i) ==
    IF k > Len(pat) THEN TRUE
    ELSE LET t == pat[k]
         IN  CASE t.tok = "lit" ->
                      i <= Len(s) /\ s[i] = t.ch /\ MatchHere(pat, k + 1, s, i + 1)
               [] t.tok = "any" ->
                      i <= Len(s) /\ s[i] # "\n" /\ MatchHere(pat, k + 1, s, i + 1)
               [] t.tok = "class+" ->
                      \E j \in (i + 1)..(Len(s) + 1) :
                          /\ \A m \in i..(j - 1) : s[m] \in Lower \cup Digits \cup { "-" }
                          /\ MatchHere(pat, k + 1, s, j)
               [] t.tok = "end" ->
                      /\ i = Len(s) + 1 \/ (i = Len(s) /\ s[i] = "\n")
                      /\ MatchHere(pat, k + 1, s, i)

\* re.search(pattern, string): a match starting anywhere in the string.
re_search(pat, s) == \E i \in 1..(Len(s) + 1) : MatchHere(pat, 1, s, i)

-----------------------------------------------------------------------------
(* Payloads, downloads and responses the handlers are called with *)

Types == { "Notification", "SubscriptionConfirmation", "UnsubscribeConfirmation" }

CertUrlA == "https://sns.eu-1.amazonaws.com/cert-a.pem"

CertUrlB == "https://sns.eu-1.amazonaws.com/cert-b.pem"

CertUrls == { CertUrlA, CertUrlB }

SubscribeUrls ==
    { "https://sns.eu-1.amazonaws.com/c", "https://evil.example.com/x",
      "https://snsxaxamazonaws.com/c", "https://sns.eu-1.amazonaws.com.evil.net/c",
      "https://evil.net/sns.eu-1.amazonaws.com", "https://evil-sns.eu-1.amazonaws.com/c",
      "sns.eu-1.amazonaws.com/c", "https://sns.EU.amazonaws.com/c",
      "https://example.com/c" }

\* A payload without its Signature.
Unsigned(type, msg, msgid, certurl, suburl) ==
    LET common == [Type |-> type, Message |-> msg, MessageId |-> msgid,
                   Timestamp |-> "ts1", TopicArn |-> "arn1",
                   SigningCertURL |-> certurl]
    IN  IF type = "Notification" THEN common
        ELSE common @@ [SubscribeURL |-> suburl, Token |-> "tok1"]

Drop(d, f) == [k \in DOMAIN d \ {f} |-> d[k]]

SigForms == { "plain", "newline", "nopad", "flipped" }

\* The Signature text a payload arrives with: the base64 of the signature
\* bytes as sent, with a trailing newline, with its padding cut off, or with
\* its first digit changed.
SigText(form, bytes) ==
    LET enc == b64encode(bytes)
    IN  CASE form = "plain" -> enc
          [] form = "newline" -> Append(enc, 65)
          [] form = "nopad" -> SubSeq(enc, 1, Len(enc) - 1)
          [] form = "flipped" -> [enc EXCEPT ![1] = (@ + 1) % 64]

\* The payload that `signer` signed with Message "m1", arriving with Message
\* msg and its Signature in the given form.
Payload(type, msg, signer, form, certurl) ==
    LET orig == Unsigned(type, "m1", "id1", certurl, "https://sns.eu-1.amazonaws.com/c")
        fmt == IF type = "Notification" THEN NOTIFICATION_HASH_FORMAT
               ELSE SUBSCRIPTION_HASH_FORMAT
        sig == SigText(form, Sign(signer, Substitute(fmt, orig)))
    IN  ("Signature" :> sig) @@ [orig EXCEPT !["Message"] = msg]

VerifyPayloads ==
    { Payload(t, m, k, f, CertUrlA) :
          t \in Types, m \in { "m1", "m2" }, k \in { AwsKey, OtherKey }, f \in SigForms }
    \cup { Payload(t, "m1", AwsKey, "plain", CertUrlB) : t \in Types }
    \cup UNION { { Drop(Payload(t, "m1", AwsKey, "plain", CertUrlA), f) :
                       f \in DOMAIN Payload(t, "m1", AwsKey, "plain", CertUrlA) } :
                 t \in Types }

\* The payloads of the concurrent specification.
ConcPayloads ==
    { Payload("Notification", "m1", AwsKey, "plain", CertUrlA),
      Payload("Notification", "m2", AwsKey, "plain", CertUrlA) }

ApprovePayloads ==
    { ("Signature" :> <<>>)
          @@ Unsigned("SubscriptionConfirmation", "m1", "id1", CertUrlA, u) :
          u \in SubscribeUrls }
    \cup { Payload("Notification", "m1", AwsKey, "plain", CertUrlA) }

\* The payloads whose canonical strings are compared with each other.
CanonPayloads ==
    { ("Signature" :> <<>>) @@ Unsigned(t, m, i, CertUrlA, "https://sns.eu-1.amazonaws.com/c") :
          t \in Types,
          m \in { "m1", "m2", "m1\nMessageId\nid0" },
          i \in { "id1", "id0\nMessageId\nid1" } }
    \cup { Drop(("Signature" :> <<>>)
                    @@ Unsigned(t, "line1\nline2", "id1", CertUrlA, "https://example.com/c"), f) :
               t \in Types, f \in { "Signature", "Token" } }

\* What a certificate URL may serve: nothing, a page that is no PEM file,
\* one certificate (of either key, or one holding no loadable key), two.
Downloads ==
    { <<>>, <<Text>>, <<Cert(AwsKey)>>, <<Cert(OtherKey)>>, <<BadCert>>,
      <<Cert(AwsKey), Cert(OtherKey)>> }

\* What urlopen(cert_url) does: a response with a body, or URLError.
FetchOutcomes ==
    { [kind |-> "ok", bytes |-> b] : b \in Downloads }
    \cup { [kind |-> "URLError", bytes |-> NoBytes] }

Bodies == { "<ConfirmSubscriptionResponse/>", "<ErrorResponse/>", "<bytes ff fe>" }

\* What urlopen(SubscribeURL) does: a response, an HTTP error response, or
\* no response at all (URLError).
GetOutcomes ==
    { [kind |-> k, body |-> b] : k \in { "ok", "HTTPError" }, b \in Bodies }
    \cup { [kind |-> "URLError", body |-> ""] }

-----------------------------------------------------------------------------
(* State *)

VARIABLES
    settings,    \* django.conf.settings: BOUNCY_SUBSCRIBE_DOMAIN_REGEX
    key_cache,   \* the cache store: certificate URL -> entry
    pc,          \* where each thread's call stands
    op,          \* the function each thread is in
    data,        \* the payload each thread was called with
    pemfile,     \* grab_keyfile's local pemfile, its return value
    result,      \* what the call returned or raised
    canonical,   \* the text the call built from its hash format
    trace,       \* the GET and the signal of an approve_subscription call
    obs,         \* what the call's grab_keyfile saw in the cache and downloaded,
                 \* which calls were inside grab_keyfile when it wrote, and
                 \* whether its write is the one the cache holds
    fetches      \* per URL: downloads made while the cache held an entry for it

vars == << settings, key_cache, pc, op, data, pemfile, result, canonical,
           trace, obs, fetches >>

NoEntry == [hit |-> FALSE, bytes |-> NoBytes]

Entry(bytes) == [hit |-> TRUE, bytes |-> bytes]

NoData == [Type |-> "none"]

NoResult == [kind |-> "none", val |-> "", exc |-> "", status |-> 0, body |-> ""]

Return(v) == [kind |-> "return", val |-> v, exc |-> "", status |-> 0, body |-> ""]

Raise(e) == [kind |-> "raise", val |-> "", exc |-> e, status |-> 0, body |-> ""]

HttpResponse(content) ==
    [kind |-> "return", val |-> "HttpResponse", exc |-> "", status |-> 200,
     body |-> content]

HttpResponseBadRequest(content) ==
    [kind |-> "return", val |-> "HttpResponseBadRequest", exc |-> "",
     status |-> 400, body |-> content]

NoCanon == [ok |-> FALSE, exc |-> "not built", lines |-> <<>>]

NoObs == [got |-> FALSE, cached |-> NoEntry, fetched |-> FALSE, answer |-> "",
          download |-> NoBytes, stored |-> FALSE, rivals |-> {}, current |-> FALSE]

Init ==
    /\ settings \in { [regex_set |-> FALSE, regex |-> <<>>],
                      [regex_set |-> TRUE, regex |-> CustomDomainRegex] }
    /\ key_cache = [u \in CertUrls |-> NoEntry]
    /\ pc = [p \in Procs |-> "idle"]
    /\ op = [p \in Procs |-> "none"]
    /\ data = [p \in Procs |-> NoData]
    /\ pemfile = [p \in Procs |-> NoBytes]
    /\ result = [p \in Procs |-> NoResult]
    /\ canonical = [p \in Procs |-> NoCanon]
    /\ trace = [p \in Procs |-> <<>>]
    /\ obs = [p \in Procs |-> NoObs]
    /\ fetches = [u \in CertUrls |-> 0]

-----------------------------------------------------------------------------
(* verify_notification and grab_keyfile *)

\* A handler that answers True.
VerifiedOnException(exc) == Return("True")

\* No handler: the exception leaves verify_notification.
RaiseOnException(exc) == Raise(exc)

\* except Exception: return False
OnVerifyException(exc) == Return("False")

\* Lines 101-117, with pemfile in hand: the result and the text built.
VerifyRest(d, pem) ==
    LET cert == load_pem_public_key(pem)
        signature == decodebytes(d["Signature"])
        text == Format(HashFormat(d), d)
    IN  IF ~cert.ok
            THEN [result |-> Raise(cert.exc), canonical |-> NoCanon]
        ELSE IF "Signature" \notin DOMAIN d
            THEN [result |-> Raise("KeyError"), canonical |-> NoCanon]
        ELSE IF ~signature.ok
            THEN [result |-> Raise(signature.exc), canonical |-> NoCanon]
        ELSE IF "Type" \notin DOMAIN d
            THEN [result |-> Raise("KeyError"), canonical |-> NoCanon]
        ELSE IF ~text.ok
            THEN [result |-> OnVerifyException(text.exc), canonical |-> text]
        ELSE IF ~cert_verify(cert, signature.bytes, text.lines)
            THEN [result |-> OnVerifyException("InvalidSignature"), canonical |-> text]
        ELSE [result |-> Return("True"), canonical |-> text]

\* A test that always downloads.
AlwaysMiss(entry) == TRUE

\* if not pemfile: the cache gave nothing, or gave empty bytes.
CacheMiss(entry) == ~entry.hit \/ entry.bytes = NoBytes

\* A test that lets a file without any certificate pass.
MoreThanOne(certificates) == Len(certificates) > 1

\* if len(certificates) != 1
InvalidCertificateFile(certificates) == Len(certificates) # 1

\* A return of whatever the cache holds for the URL.
RereadCache(p, url) == key_cache[url].bytes

\* return pemfile
GrabReturn(p, url) == pemfile[p]

Idle(p) == pc[p] = "idle"

\* The threads whose call is about the certificate at url.
SameUrl(q, url) ==
    op[q] = "verify" /\ "SigningCertURL" \in DOMAIN data[q]
        /\ data[q]["SigningCertURL"] = url

\* The threads inside grab_keyfile(url), past its cache miss.
InFlight(url) ==
    { q \in Procs : pc[q] \in { "grab_fetch", "grab_set" } /\ SameUrl(q, url) }

\* The call, the read of SigningCertURL and key_cache.get; on a hit the rest
\* of verify_notification, which touches nothing shared.
StartVerify(p, d) ==
    /\ Idle(p)
    /\ op' = [op EXCEPT ![p] = "verify"]
    /\ data' = [data EXCEPT ![p] = d]
    /\ trace' = [trace EXCEPT ![p] = <<>>]
    /\ UNCHANGED << settings, key_cache, fetches >>
    /\ IF "SigningCertURL" \notin DOMAIN d
           THEN /\ pc' = [pc EXCEPT ![p] = "done"]
                /\ result' = [result EXCEPT ![p] = Raise("KeyError")]
                /\ pemfile' = [pemfile EXCEPT ![p] = NoBytes]
                /\ canonical' = [canonical EXCEPT ![p] = NoCanon]
                /\ obs' = [obs EXCEPT ![p] = NoObs]
       ELSE LET entry == key_cache[d["SigningCertURL"]]
            IN  IF CacheMiss(entry)
                    THEN /\ pc' = [pc EXCEPT ![p] = "grab_fetch"]
                         /\ result' = [result EXCEPT ![p] = NoResult]
                         /\ pemfile' = [pemfile EXCEPT ![p] = entry.bytes]
                         /\ canonical' = [canonical EXCEPT ![p] = NoCanon]
                         /\ obs' = [obs EXCEPT ![p] = [NoObs EXCEPT !.cached = entry]]
                    ELSE LET rest == VerifyRest(d, entry.bytes)
                         IN  /\ pc' = [pc EXCEPT ![p] = "done"]
                             /\ result' = [result EXCEPT ![p] = rest.result]
                             /\ pemfile' = [pemfile EXCEPT ![p] = entry.bytes]
                             /\ canonical' = [canonical EXCEPT ![p] = rest.canonical]
                             /\ obs' = [obs EXCEPT ![p] =
                                           [NoObs EXCEPT !.cached = entry, !.got = TRUE]]

\* urlopen(cert_url), response.read(), pem.parse and the check of the count.
GrabFetch(p, outcome) ==
    /\ pc[p] = "grab_fetch"
    /\ LET url == data[p]["SigningCertURL"]
       IN  /\ fetches' = [fetches EXCEPT ![url] =
                             IF key_cache[url].hit THEN @ + 1 ELSE @]
           /\ obs' = [obs EXCEPT ![p].fetched = TRUE, ![p].answer = outcome.kind,
                                 ![p].download = outcome.bytes]
           /\ IF outcome.kind = "URLError"
                  THEN /\ pc' = [pc EXCEPT ![p] = "done"]
                       /\ result' = [result EXCEPT ![p] = Raise("URLError")]
                       /\ UNCHANGED pemfile
              ELSE IF InvalidCertificateFile(pem_parse(outcome.bytes))
                  THEN /\ pc' = [pc EXCEPT ![p] = "done"]
                       /\ result' = [result EXCEPT ![p] = Raise("ValueError")]
                       /\ pemfile' = [pemfile EXCEPT ![p] = outcome.bytes]
              ELSE /\ pc' = [pc EXCEPT ![p] = "grab_set"]
                   /\ pemfile' = [pemfile EXCEPT ![p] = outcome.bytes]
                   /\ UNCHANGED result
    /\ UNCHANGED << settings, key_cache, op, data, canonical, trace >>

\* key_cache.set(cert_url, pemfile), the return of grab_keyfile and the rest
\* of verify_notification.
GrabSet(p) ==
    /\ pc[p] = "grab_set"
    /\ LET url == data[p]["SigningCertURL"]
       IN  /\ key_cache' = [key_cache EXCEPT ![url] = Entry(pemfile[p])]
           /\ LET rest == VerifyRest(data[p], GrabReturn(p, url))
              IN  /\ result' = [result EXCEPT ![p] = rest.result]
                  /\ canonical' = [canonical EXCEPT ![p] = rest.canonical]
           /\ pemfile' = [pemfile EXCEPT ![p] = GrabReturn(p, url)]
           /\ obs' = [q \in Procs |->
                         IF q = p
                             THEN [obs[p] EXCEPT !.got = TRUE, !.stored = TRUE,
                                                 !.current = TRUE,
                                                 !.rivals = InFlight(url) \ {p}]
                         ELSE IF SameUrl(q, url)
                             THEN [obs[q] EXCEPT !.current = FALSE]
                         ELSE obs[q]]
    /\ pc' = [pc EXCEPT ![p] = "done"]
    /\ UNCHANGED << settings, op, data, trace, fetches >>

\* The call is over: its caller has the result and its locals are gone.
Finish(p) ==
    /\ pc[p] = "done"
    /\ pc' = [pc EXCEPT ![p] = "idle"]
    /\ op' = [op EXCEPT ![p] = "none"]
    /\ data' = [data EXCEPT ![p] = NoData]
    /\ pemfile' = [pemfile EXCEPT ![p] = NoBytes]
    /\ result' = [result EXCEPT ![p] = NoResult]
    /\ canonical' = [canonical EXCEPT ![p] = NoCanon]
    /\ trace' = [trace EXCEPT ![p] = <<>>]
    /\ obs' = [q \in Procs |->
                  IF q = p THEN NoObs ELSE [obs[q] EXCEPT !.rivals = @ \ {p}]]
    /\ UNCHANGED << settings, key_cache, fetches >>

\* The cache store drops an entry (its own expiry policy).
Evict(url) ==
    /\ key_cache[url].hit
    /\ key_cache' = [key_cache EXCEPT ![url] = NoEntry]
    /\ fetches' = [fetches EXCEPT ![url] = 0]
    /\ obs' = [q \in Procs |->
                  IF SameUrl(q, url) THEN [obs[q] EXCEPT !.current = FALSE] ELSE obs[q]]
    /\ UNCHANGED << settings, pc, op, data, pemfile, result, canonical, trace >>

-----------------------------------------------------------------------------
(* approve_subscription *)

\* getattr(settings, 'BOUNCY_SUBSCRIBE_DOMAIN_REGEX', r"sns.[a-z0-9\-]+.amazonaws.com$")
subscribe_domain_regex(cfg) ==
    IF cfg.regex_set THEN cfg.regex ELSE DefaultDomainRegex

\* The attributes of the module bound to the name `urllib` by lines 3-6:
\* urllib2 is not importable where base64.decodebytes exists, so it is the
\* package urllib with the submodules that urllib.request loads.
UrllibAttributes == { "error", "parse", "request", "response" }

\* force_str(result): the bytes decoded as UTF-8, DjangoUnicodeDecodeError
\* when they are not UTF-8.
force_str(body) ==
    IF body = "<bytes ff fe>"
        THEN [ok |-> FALSE, exc |-> "DjangoUnicodeDecodeError", text |-> ""]
        ELSE [ok |-> TRUE, exc |-> "", text |-> body]

GetEvent(url, outcome) ==
    [ev |-> "GET", url |-> url, outcome |-> outcome.kind, result |-> outcome.body,
     notification |-> NoData]

\* signals.subscription.send(sender=..., result=result, notification=data);
\* the receivers are not part of this module.
SignalEvent(body, d) ==
    [ev |-> "signal", url |-> "", outcome |-> "", result |-> body, notification |-> d]

\* The whole of approve_subscription with the GET answering `outcome`, the
\* request made before the domain is looked at.
ApproveGetFirst(cfg, d, outcome) ==
    IF "SubscribeURL" \notin DOMAIN d
        THEN [result |-> Raise("KeyError"), trace |-> <<>>]
    ELSE IF ~re_search(subscribe_domain_regex(cfg), netloc(d["SubscribeURL"]))
        THEN [result |-> HttpResponseBadRequest("Improper Subscription Domain"),
              trace |-> << GetEvent(d["SubscribeURL"], outcome) >>]
    ELSE [result |-> HttpResponse(outcome.body),
          trace |-> << GetEvent(d["SubscribeURL"], outcome),
                       SignalEvent(outcome.body, d) >>]

\* The whole of approve_subscription with the GET answering `outcome`: the
\* result and the requests and signals made, in order.
ApproveSubscription(cfg, d, outcome) ==
    IF "SubscribeURL" \notin DOMAIN d
        THEN [result |-> Raise("KeyError"), trace |-> <<>>]
    ELSE LET url == d["SubscribeURL"]
             domain == netloc(url)
             pattern == subscribe_domain_regex(cfg)
             get == GetEvent(url, outcome)
             text == force_str(outcome.body)
         IN  IF ~re_search(pattern, domain)
                 THEN [result |-> HttpResponseBadRequest("Improper Subscription Domain"),
                       trace |-> <<>>]
             ELSE IF outcome.kind = "URLError"
                 THEN [result |-> Raise("URLError"), trace |-> << get >>]
             ELSE IF outcome.kind = "HTTPError" /\ "HTTPError" \notin UrllibAttributes
                 THEN [result |-> Raise("AttributeError"), trace |-> << get >>]
             ELSE IF ~text.ok
                 THEN [result |-> Raise(text.exc),
                       trace |-> << get, SignalEvent(outcome.body, d) >>]
             ELSE [result |-> HttpResponse(text.text),
                   trace |-> << get, SignalEvent(outcome.body, d) >>]

Approve(p, d, outcome) ==
    /\ Idle(p)
    /\ LET r == ApproveSubscription(settings, d, outcome)
       IN  /\ result' = [result EXCEPT ![p] = r.result]
           /\ trace' = [trace EXCEPT ![p] = r.trace]
    /\ pc' = [pc EXCEPT ![p] = "done"]
    /\ op' = [op EXCEPT ![p] = "approve"]
    /\ data' = [data EXCEPT ![p] = d]
    /\ pemfile' = [pemfile EXCEPT ![p] = NoBytes]
    /\ canonical' = [canonical EXCEPT ![p] = NoCanon]
    /\ obs' = [obs EXCEPT ![p] = NoObs]
    /\ UNCHANGED << settings, key_cache, fetches >>

-----------------------------------------------------------------------------
(* Specifications *)

\* One request at a time.
Next ==
    \/ \E d \in VerifyPayloads : StartVerify(1, d)
    \/ \E o \in FetchOutcomes : GrabFetch(1, o)
    \/ GrabSet(1)
    \/ \E d \in ApprovePayloads, o \in GetOutcomes : Approve(1, d, o)
    \/ Finish(1)
    \/ \E u \in CertUrls : Evict(u)

Spec == Init /\ [][Next]_vars

\* Several request-handling threads verifying at once.
NextConc ==
    \/ \E p \in Procs, d \in ConcPayloads : StartVerify(p, d)
    \/ \E p \in Procs, o \in FetchOutcomes : GrabFetch(p, o)
    \/ \E p \in Procs : GrabSet(p)
    \/ \E p \in Procs : Finish(p)
    \/ \E u \in CertUrls : Evict(u)

SpecConc == Init /\ [][NextConc]_vars

\* The canonical string of each of a set of payloads.
InitCanon ==
    /\ Init
    /\ ~settings.regex_set

StartCanon(p, d) ==
    /\ pc[p] = "idle"
    /\ op[p] = "none"
    /\ op' = [op EXCEPT ![p] = "format"]
    /\ data' = [data EXCEPT ![p] = d]
    /\ UNCHANGED << settings, key_cache, pc, pemfile, result, canonical, trace,
                    obs, fetches >>

\* hash_format.format(**data), with the hash format chosen by Type.
BuildCanonical(p) ==
    /\ pc[p] = "idle"
    /\ op[p] = "format"
    /\ canonical' = [canonical EXCEPT ![p] = Format(HashFormat(data[p]), data[p])]
    /\ pc' = [pc EXCEPT ![p] = "done"]
    /\ UNCHANGED << settings, key_cache, op, data, pemfile, result, trace, obs,
                    fetches >>

NextCanon ==
    \/ \E p \in Procs, d \in CanonPayloads : StartCanon(p, d)
    \/ \E p \in Procs : BuildCanonical(p)

SpecCanon == InitCanon /\ [][NextCanon]_vars

-----------------------------------------------------------------------------
(* Properties *)

Verifying(p) == pc[p] = "done" /\ op[p] = "verify"

Approving(p) == pc[p] = "done" /\ op[p] = "approve"

NotificationFields == { "Message", "MessageId", "Timestamp", "TopicArn", "Type" }

SubscriptionFields == NotificationFields \cup { "SubscribeURL", "Token" }

TemplateFields(d) ==
    IF "Type" \notin DOMAIN d THEN { "Type" }
    ELSE IF d["Type"] = "Notification" THEN NotificationFields
    ELSE SubscriptionFields

\* The canonical string as the documentation of the format lays it out.
ExpectedCanonical(d) ==
    IF d["Type"] = "Notification"
        THEN <<"Message">> \o Lines(d["Message"])
                 \o <<"MessageId">> \o Lines(d["MessageId"])
                 \o <<"Timestamp">> \o Lines(d["Timestamp"])
                 \o <<"TopicArn">> \o Lines(d["TopicArn"])
                 \o <<"Type">> \o Lines(d["Type"]) \o <<"">>
        ELSE <<"Message">> \o Lines(d["Message"])
                 \o <<"MessageId">> \o Lines(d["MessageId"])
                 \o <<"SubscribeURL">> \o Lines(d["SubscribeURL"])
                 \o <<"Timestamp">> \o Lines(d["Timestamp"])
                 \o <<"Token">> \o Lines(d["Token"])
                 \o <<"TopicArn">> \o Lines(d["TopicArn"])
                 \o <<"Type">> \o Lines(d["Type"]) \o <<"">>

\* C1: verify_notification returns True only if every step succeeded: the
\* certificate bytes were obtained (one PEM block), the public key loaded,
\* the Signature decoded, and the decoded bytes are the signature that the
\* owner of the certificate's key makes for the canonical string of the
\* payload as received, laid out by the template its Type selects.  Among
\* these payloads, whose values hold no newline, one whose Message is not the
\* signed one is never verified.
C1_TrueOnlyIfEveryStepPassed ==
    \A p \in Procs :
        (Verifying(p) /\ result[p].kind = "return" /\ result[p].val = "True") =>
            /\ obs[p].got
            /\ Len(pem_parse(pemfile[p])) = 1
            /\ load_pem_public_key(pemfile[p]).ok
            /\ { "Signature", "Type", "Message" } \subseteq DOMAIN data[p]
            /\ decodebytes(data[p]["Signature"]).ok
            /\ TemplateFields(data[p]) \subseteq DOMAIN data[p]
            /\ \E k \in { AwsKey, OtherKey } :
                   /\ pem_parse(pemfile[p])[1] = Cert(k)
                   /\ decodebytes(data[p]["Signature"]).bytes
                          = Sign(k, ExpectedCanonical(data[p]))
            /\ data[p]["Message"] = "m1"

\* A call that downloaded the certificate and verified the payload.
C1_Witness ==
    \E p \in Procs :
        /\ Verifying(p)
        /\ result[p] = Return("True")
        /\ obs[p].fetched
        /\ data[p]["Type"] = "SubscriptionConfirmation"

\* C2: once grab_keyfile has returned, verify_notification on a payload that
\* has a Signature and a Type returns True or False; no failure of the key
\* load, the base64 decoding, the building of the canonical string or the
\* signature check leaves it as a raised exception.
C2_FailuresCollapseToFalse ==
    \A p \in Procs :
        (Verifying(p) /\ obs[p].got
             /\ { "Signature", "Type" } \subseteq DOMAIN data[p]) =>
            /\ result[p].kind = "return"
            /\ result[p].val \in { "True", "False" }

\* C3: when the host of SubscribeURL does not match the configured pattern,
\* approve_subscription returns a bad-request response and makes no request
\* and sends no signal; a request is only ever made for a matching host.
C3_MismatchRejectedBeforeAnyRequest ==
    \A p \in Procs :
        (Approving(p) /\ "SubscribeURL" \in DOMAIN data[p]) =>
            LET matches == re_search(subscribe_domain_regex(settings),
                                     netloc(data[p]["SubscribeURL"]))
            IN  /\ ~matches =>
                       /\ result[p].kind = "return"
                       /\ result[p].val = "HttpResponseBadRequest"
                       /\ result[p].status = 400
                       /\ trace[p] = <<>>
                /\ trace[p] # <<>> => matches

\* A call refused for its host, under either setting of the pattern.
C3_Witness ==
    \E p \in Procs :
        /\ Approving(p)
        /\ result[p].status = 400
        /\ trace[p] = <<>>
        /\ data[p]["SubscribeURL"] = "https://evil.example.com/x"

\* C4: a grab_keyfile call that finds an entry for its URL in the cache
\* returns the cached bytes and downloads nothing; no download is ever made
\* while the cache holds an entry for the URL; and after a call has
\* downloaded, stored and returned, the cache holds the returned bytes until
\* the store evicts them.
C4_CachedBytesServedWithoutFetch ==
    /\ \A p \in Procs :
           (pc[p] = "done" /\ op[p] = "verify" /\ obs[p].cached.hit) =>
               /\ ~obs[p].fetched
               /\ obs[p].got
               /\ pemfile[p] = obs[p].cached.bytes
    /\ \A u \in CertUrls : fetches[u] = 0
    /\ \A p \in Procs :
           (pc[p] = "done" /\ op[p] = "verify" /\ obs[p].stored) =>
               key_cache[data[p]["SigningCertURL"]] \in { NoEntry, Entry(pemfile[p]) }

\* A call served from the cache.
C4_Witness ==
    \E p \in Procs :
        /\ Verifying(p)
        /\ obs[p].cached.hit
        /\ obs[p].got
        /\ ~obs[p].fetched
        /\ pemfile[p] = << Cert(OtherKey) >>

\* C5: a download that parses into zero or several PEM blocks makes
\* grab_keyfile raise ValueError('Invalid Certificate File') without touching
\* the cache; every entry in the cache holds exactly one PEM block; and an
\* entry changes only by the store's eviction or by the write of a call that
\* downloaded exactly that content.
C5_InvalidFileRaisesAndIsNotCached ==
    /\ [](\A p \in Procs :
              (Verifying(p) /\ obs[p].fetched /\ obs[p].answer = "ok"
                   /\ Len(pem_parse(obs[p].download)) # 1) =>
                  /\ result[p] = Raise("ValueError")
                  /\ ~obs[p].got
                  /\ ~obs[p].stored)
    /\ [](\A u \in CertUrls :
              key_cache[u].hit => Len(pem_parse(key_cache[u].bytes)) = 1)
    /\ [][\A p \in Procs :
              (pc[p] = "grab_fetch" /\ pc'[p] = "done") => key_cache' = key_cache]_vars
    /\ [][\A u \in CertUrls :
              key_cache'[u] # key_cache[u] =>
                  \/ key_cache'[u] = NoEntry
                  \/ \E p \in Procs :
                         /\ pc[p] = "grab_set" /\ pc'[p] = "done"
                         /\ data[p]["SigningCertURL"] = u
                         /\ obs[p].answer = "ok"
                         /\ Len(pem_parse(obs[p].download)) = 1
                         /\ key_cache'[u] = Entry(obs[p].download)]_vars

\* A download of two certificates, refused, with nothing cached.
C5_Witness ==
    \E p \in Procs :
        /\ Verifying(p)
        /\ obs[p].fetched
        /\ obs[p].download = << Cert(AwsKey), Cert(OtherKey) >>
        /\ result[p] = Raise("ValueError")
        /\ ~key_cache[data[p]["SigningCertURL"]].hit

\* C6 as claimed: when a field of the selected template is absent from the
\* payload (and the steps before the canonical string succeeded), the caller
\* of verify_notification gets an error, not an ordinary result.
C6_MissingFieldSurfacesAsError ==
    \A p \in Procs :
        (Verifying(p) /\ obs[p].got /\ load_pem_public_key(pemfile[p]).ok
             /\ "Signature" \in DOMAIN data[p]
             /\ decodebytes(data[p]["Signature"]).ok
             /\ ~(TemplateFields(data[p]) \subseteq DOMAIN data[p])) =>
            result[p].kind = "raise"

\* C6 as the code has it: with the steps before the canonical string
\* succeeded, an absent Type raises KeyError to the caller; any other absent
\* field of the selected template makes str.format raise KeyError inside the
\* try block, and verify_notification returns False.
C6_MissingFieldReturnsFalse ==
    \A p \in Procs :
        (Verifying(p) /\ obs[p].got /\ load_pem_public_key(pemfile[p]).ok
             /\ "Signature" \in DOMAIN data[p]
             /\ decodebytes(data[p]["Signature"]).ok
             /\ ~(TemplateFields(data[p]) \subseteq DOMAIN data[p])) =>
            IF "Type" \notin DOMAIN data[p]
                THEN result[p] = Raise("KeyError") /\ canonical[p] = NoCanon
                ELSE /\ canonical[p] = [ok |-> FALSE, exc |-> "KeyError", lines |-> <<>>]
                     /\ result[p] = Return("False")

\* A subscription payload without its Token, answered False.
C6_Witness ==
    \E p \in Procs :
        /\ Verifying(p)
        /\ obs[p].got
        /\ "Type" \in DOMAIN data[p]
        /\ "Token" \notin DOMAIN data[p]
        /\ data[p]["Type"] = "SubscriptionConfirmation"
        /\ canonical[p].exc = "KeyError"
        /\ result[p] = Return("False")

\* C7: with a host that matches the pattern, approve_subscription makes
\* exactly one GET; whether it answers with a response or with an HTTP error
\* response, no exception propagates, the body is the result, the signal is
\* sent once with that result and the payload, and a 200 response wrapping
\* the result is returned: GET, then signal, then return.  (Stated for the
\* bodies that are UTF-8 text.)
C7_GetThenSignalThenOk ==
    \A p \in Procs :
        (Approving(p) /\ "SubscribeURL" \in DOMAIN data[p]
             /\ re_search(subscribe_domain_regex(settings),
                          netloc(data[p]["SubscribeURL"]))) =>
            /\ Len(trace[p]) >= 1
            /\ trace[p][1].ev = "GET"
            /\ trace[p][1].url = data[p]["SubscribeURL"]
            /\ (trace[p][1].outcome \in { "ok", "HTTPError" }
                    /\ force_str(trace[p][1].result).ok) =>
                   /\ trace[p] = << trace[p][1],
                                    SignalEvent(trace[p][1].result, data[p]) >>
                   /\ result[p] = HttpResponse(trace[p][1].result)

\* r"sns\.[a-z0-9-]+\.amazonaws\.com$"
EscapedDomainRegex ==
    << RLit("s"), RLit("n"), RLit("s"), RLit("."), RClassPlus, RLit("."),
       RLit("a"), RLit("m"), RLit("a"), RLit("z"), RLit("o"), RLit("n"),
       RLit("a"), RLit("w"), RLit("s"), RLit("."), RLit("c"), RLit("o"),
       RLit("m"), REnd >>

\* C9: with BOUNCY_SUBSCRIBE_DOMAIN_REGEX not set, approve_subscription makes
\* the GET only when the host ends with "sns.", one or more of [a-z0-9-],
\* ".amazonaws.com"; every other host is rejected.
C9_DefaultPatternHasLiteralDots ==
    \A p \in Procs :
        (Approving(p) /\ ~settings.regex_set /\ "SubscribeURL" \in DOMAIN data[p]) =>
            IF re_search(EscapedDomainRegex, netloc(data[p]["SubscribeURL"]))
                THEN trace[p] # <<>> /\ trace[p][1].ev = "GET"
                ELSE trace[p] = <<>> /\ result[p].status = 400

SingleLine(v) == Lines(v) = << v >>

Formatted(p) == pc[p] = "done" /\ op[p] = "format" /\ canonical[p].ok

\* The layout of the canonical string and its sameness for the same payload.
CanonicalLayout ==
    \A p, q \in Procs :
        (Formatted(p) /\ Formatted(q)) =>
            /\ canonical[p].lines = ExpectedCanonical(data[p])
            /\ canonical[p].lines[Len(canonical[p].lines)] = ""
            /\ data[p] = data[q] => canonical[p] = canonical[q]

\* C8 as claimed: the canonical string is the name/value lines of Message,
\* MessageId, Timestamp, TopicArn, Type for a Notification and of Message,
\* MessageId, SubscribeURL, Timestamp, Token, TopicArn, Type otherwise, each
\* name on its own line followed by its value, with a trailing newline; it is
\* the same for the same payload and differs whenever the value of a field of
\* the template differs.
C8_CanonicalIsSensitive ==
    /\ CanonicalLayout
    /\ \A p, q \in Procs :
           (/\ Formatted(p)
            /\ Formatted(q)
            /\ \E f \in TemplateFields(data[p]) \cup TemplateFields(data[q]) :
                   \/ f \notin DOMAIN data[p] \cap DOMAIN data[q]
                   \/ data[p][f] # data[q][f]) =>
               canonical[p].lines # canonical[q].lines

\* C8 as the code has it: the same layout and sameness, and the canonical
\* strings of two payloads differ whenever the value of a field of the
\* template differs and no value of a field of either template holds a
\* newline.
C8_CanonicalIsSensitiveOnSingleLines ==
    /\ CanonicalLayout
    /\ \A p, q \in Procs :
           (/\ Formatted(p)
            /\ Formatted(q)
            /\ \A f \in TemplateFields(data[p]) : SingleLine(data[p][f])
            /\ \A g \in TemplateFields(data[q]) : SingleLine(data[q][g])
            /\ \E h \in TemplateFields(data[p]) \cup TemplateFields(data[q]) :
                   \/ h \notin DOMAIN data[p] \cap DOMAIN data[q]
                   \/ data[p][h] # data[q][h]) =>
               canonical[p].lines # canonical[q].lines

\* Two confirmation payloads that differ in Message only, and their strings.
C8_Witness ==
    \E p, q \in Procs :
        /\ Formatted(p) /\ Formatted(q)
        /\ data[p]["Type"] = "UnsubscribeConfirmation"
        /\ data[q] = [data[p] EXCEPT !["Message"] = "m2"]
        /\ data[p]["Message"] = "m1"
        /\ SingleLine(data[p]["MessageId"])
        /\ canonical[p].lines # canonical[q].lines
        /\ Len(canonical[p].lines) = 15

\* Two calls for the same URL, both past their cache miss when p wrote.
Raced(p, q) ==
    /\ p # q
    /\ Verifying(p) /\ Verifying(q)
    /\ obs[p].stored /\ obs[q].stored
    /\ data[p]["SigningCertURL"] = data[q]["SigningCertURL"]
    /\ q \in obs[p].rivals

CacheWritesAreOneCertificate ==
    [][\A u \in CertUrls :
           (key_cache'[u] # key_cache[u] /\ key_cache'[u].hit) =>
               Len(pem_parse(key_cache'[u].bytes)) = 1]_vars

\* C10 as claimed: two grab_keyfile calls for the same uncached URL may both
\* miss and both download; under every interleaving both return the same
\* bytes, each write to the cache passed the exactly-one-certificate check,
\* and once both have finished the cache holds the last writer's bytes, equal
\* to what both returned.
C10_RaceIsBenign ==
    \A p, q \in Procs :
        (Raced(p, q) /\ (obs[p].current \/ obs[q].current)) =>
            /\ pemfile[p] = pemfile[q]
            /\ key_cache[data[p]["SigningCertURL"]] = Entry(pemfile[p])
            /\ Len(pem_parse(pemfile[p])) = 1

\* C10 as the code has it: each of the two calls returns the bytes of its own
\* download, so both return the same bytes when both downloads were the same;
\* each write to the cache passed the exactly-one-certificate check; and once
\* both have finished the cache holds the bytes the last writer returned.
C10_RaceKeepsOwnDownload ==
    /\ [](\A p, q \in Procs :
              Raced(p, q) =>
                  /\ obs[p].fetched /\ obs[q].fetched
                  /\ ~obs[p].cached.hit /\ ~obs[q].cached.hit
                  /\ pemfile[p] = obs[p].download
                  /\ pemfile[q] = obs[q].download
                  /\ Len(pem_parse(pemfile[p])) = 1
                  /\ Len(pem_parse(pemfile[q])) = 1
                  /\ obs[p].current =>
                         key_cache[data[p]["SigningCertURL"]] = Entry(pemfile[p])
                  /\ obs[q].current =>
                         key_cache[data[q]["SigningCertURL"]] = Entry(pemfile[q])
                  /\ (obs[p].download = obs[q].download
                          /\ (obs[p].current \/ obs[q].current)) =>
                         /\ pemfile[p] = pemfile[q]
                         /\ key_cache[data[p]["SigningCertURL"]] = Entry(pemfile[p]))
    /\ CacheWritesAreOneCertificate

\* Two calls that both missed and both downloaded, the second writer's bytes
\* in the cache.
C10_Witness ==
    \E p, q \in Procs :
        /\ Raced(p, q)
        /\ obs[q].current
        /\ obs[p].download = obs[q].download
        /\ key_cache[data[q]["SigningCertURL"]] = Entry(pemfile[q])
        /\ pemfile[p] = pemfile[q]

====
